---- MODULE Spec2Model ----
(***************************************************************************)
(* Model of the weather lookup application: the index route of app.py and  *)
(* WeatherService of weather_service.py (get_weather, the location         *)
(* selector, the weather code mapper and the formatter).                   *)
(*                                                                         *)
(* Python dicts are functions whose DOMAIN is the set of keys present.     *)
(* Numbers read from the weather provider are fixed point: temperature,    *)
(* windspeed, humidity and pressure are in tenths of their unit and        *)
(* visibility is in metres.  In a report, the fields rounded to an integer *)
(* are integers and the fields rounded to one decimal are in tenths.       *)
(***************************************************************************)
EXTENDS Integers, Sequences, FiniteSets, TLC

VARIABLES
    pc,                 \* position of the request / call being executed
    method,             \* request.method of the request to the index route
    form_city,          \* request.form.get('city', ''), a sequence of characters
    city,               \* index(): city after strip()
    calls,              \* outbound requests issued so far, in order
    geocoding_response, \* get_weather: outcome of the geocoder request
    results,            \* get_weather / _select_best_location: candidates
    location,           \* the selected location
    weather_response,   \* get_weather: outcome of the weather request
    ret,                \* outcome of get_weather as seen by index()
    flashed,            \* messages flashed by index()
    weather_data,       \* value handed to render_template
    weather_code,       \* _get_weather_description: argument
    description         \* _get_weather_description: returned triple

vars == <<pc, method, form_city, city, calls, geocoding_response, results,
          location, weather_response, ret, flashed, weather_data,
          weather_code, description>>

-----------------------------------------------------------------------------
(* Bounds of the model *)

MaxCityLen == 2
MaxResults == 2
MaxSelectLen == 3
MaxBelowZero == 2
MaxCode == 100

-----------------------------------------------------------------------------
(* Python values *)

None == [type |-> "NoneType"]

EmptyDict == <<>>

\* d.get(k, default)
Get(d, k, default) == IF k \in DOMAIN d THEN d[k] ELSE default

\* a dict entry that is present (o = <<v>>) or missing (o = <<>>)
Opt(k, o) == IF o = <<>> THEN EmptyDict ELSE k :> o[1]

\* all sequences over S of length at most n
SeqUpTo(S, n) == UNION { [1..k -> S] : k \in 0..n }

-----------------------------------------------------------------------------
(* WeatherService._select_best_location *)

PopulatedBoost == 10000
AdminBoost == 5000

location_score_no_admin(loc) ==
    Get(loc, "population", 0)
      + (IF Get(loc, "feature_class", "") = "P" THEN PopulatedBoost ELSE 0)

location_score(loc) ==
    Get(loc, "population", 0)
      + (IF Get(loc, "feature_class", "") = "P" THEN PopulatedBoost ELSE 0)
      + (IF Get(loc, "admin1", "") # "" THEN AdminBoost ELSE 0)

\* The mutant places an element before the elements of equal score.
RECURSIVE InsertUnstable(_, _)
InsertUnstable(x, s) ==
    IF s = <<>> THEN <<x>>
    ELSE IF location_score(Head(s)) <= location_score(x)
         THEN <<x>> \o s
         ELSE <<Head(s)>> \o InsertUnstable(x, Tail(s))

\* Insert x into s, which is sorted by descending score, behind every
\* element whose score is at least that of x.
RECURSIVE InsertDesc(_, _)
InsertDesc(x, s) ==
    IF s = <<>> THEN <<x>>
    ELSE IF location_score(Head(s)) < location_score(x)
         THEN <<x>> \o s
         ELSE <<Head(s)>> \o InsertDesc(x, Tail(s))

\* sorted(seq, key=location_score, reverse=True): a stable sort; elements of
\* equal score keep their original order.
RECURSIVE SortedDesc(_)
SortedDesc(seq) ==
    IF seq = <<>> THEN <<>>
    ELSE InsertDesc(seq[Len(seq)], SortedDesc(SubSeq(seq, 1, Len(seq) - 1)))

_select_best_location(res) ==
    IF res = <<>> THEN None ELSE SortedDesc(res)[1]

-----------------------------------------------------------------------------
(* WeatherService._get_weather_description *)

weather_map ==
    ( 0 :> <<"Clear sky", "Clear", "01d">>) @@
    ( 1 :> <<"Mainly clear", "Clear", "01d">>) @@
    ( 2 :> <<"Partly cloudy", "Clouds", "02d">>) @@
    ( 3 :> <<"Overcast", "Clouds", "03d">>) @@
    (45 :> <<"Fog", "Mist", "50d">>) @@
    (48 :> <<"Depositing rime fog", "Mist", "50d">>) @@
    (51 :> <<"Light drizzle", "Drizzle", "09d">>) @@
    (53 :> <<"Moderate drizzle", "Drizzle", "09d">>) @@
    (55 :> <<"Dense drizzle", "Drizzle", "09d">>) @@
    (56 :> <<"Light freezing drizzle", "Drizzle", "09d">>) @@
    (57 :> <<"Dense freezing drizzle", "Drizzle", "09d">>) @@
    (61 :> <<"Slight rain", "Rain", "10d">>) @@
    (63 :> <<"Moderate rain", "Rain", "10d">>) @@
    (65 :> <<"Heavy rain", "Rain", "10d">>) @@
    (66 :> <<"Light freezing rain", "Rain", "10d">>) @@
    (67 :> <<"Heavy freezing rain", "Rain", "10d">>) @@
    (71 :> <<"Slight snow fall", "Snow", "13d">>) @@
    (73 :> <<"Moderate snow fall", "Snow", "13d">>) @@
    (75 :> <<"Heavy snow fall", "Snow", "13d">>) @@
    (77 :> <<"Snow grains", "Snow", "13d">>) @@
    (80 :> <<"Slight rain showers", "Rain", "09d">>) @@
    (81 :> <<"Moderate rain showers", "Rain", "09d">>) @@
    (82 :> <<"Violent rain showers", "Rain", "09d">>) @@
    (85 :> <<"Slight snow showers", "Snow", "13d">>) @@
    (86 :> <<"Heavy snow showers", "Snow", "13d">>) @@
    (95 :> <<"Thunderstorm", "Thunderstorm", "11d">>) @@
    (96 :> <<"Thunderstorm with slight hail", "Thunderstorm", "11d">>) @@
    (99 :> <<"Thunderstorm with heavy hail", "Thunderstorm", "11d">>)

\* The mutant falls back to the entry of code 0 instead of "Unknown".
_get_weather_description_clear(code) ==
    IF code \in DOMAIN weather_map THEN weather_map[code] ELSE weather_map[0]

_get_weather_description(code) ==
    Get(weather_map, code, <<"Unknown", "Unknown", "01d">>)

-----------------------------------------------------------------------------
(* WeatherService._format_weather_data *)

\* Python truthiness of a value that is None or a dict
Truthy(v) == v # None /\ v # EmptyDict

\* round() of the rational n / d (d > 0) to an integer, halves to even
RoundHalfEven(n, d) ==
    LET q == n \div d
        r == n % d
    IN  IF 2 * r < d THEN q
        ELSE IF 2 * r > d THEN q + 1
        ELSE IF q % 2 = 0 THEN q ELSE q + 1

\* xs[0] of a Python list; the caller checks that it exists
Index0(xs) == xs[1]

ReportKeys ==
    {"city", "country", "region", "temperature", "feels_like", "description",
     "main", "humidity", "pressure", "wind_speed", "wind_direction", "icon",
     "visibility"}

\* The try block raises: raw_data or current is None (AttributeError on
\* .get), or the humidity or pressure series is an empty list (IndexError).
FormatRaises(raw_data) ==
    IF raw_data = None THEN TRUE
    ELSE LET current == Get(raw_data, "current_weather", EmptyDict)
             hourly == Get(raw_data, "hourly", EmptyDict)
         IN  \/ current = None
             \/ /\ Truthy(hourly)
                /\ \/ Get(hourly, "relative_humidity_2m", <<0>>) = <<>>
                   \/ Get(hourly, "surface_pressure", <<0>>) = <<>>

FormatReport(raw_data, loc) ==
    LET current == Get(raw_data, "current_weather", EmptyDict)
        hourly == Get(raw_data, "hourly", EmptyDict)
        current_humidity ==
            IF Truthy(hourly)
            THEN Index0(Get(hourly, "relative_humidity_2m", <<0>>)) ELSE 0
        current_pressure ==
            IF Truthy(hourly)
            THEN Index0(Get(hourly, "surface_pressure", <<0>>)) ELSE 0
        \* metres; the division by 1000 is folded into the rounding below
        current_visibility ==
            IF Truthy(hourly) /\ Get(hourly, "visibility", <<>>) # <<>>
            THEN Index0(Get(hourly, "visibility", <<0>>)) ELSE 0
        triple == _get_weather_description(Get(current, "weathercode", 0))
    IN  [city           |-> Get(loc, "name", "Unknown"),
         country        |-> Get(loc, "country_code", ""),
         region         |-> Get(loc, "admin1", ""),
         temperature    |-> RoundHalfEven(Get(current, "temperature", 0), 10),
         feels_like     |-> RoundHalfEven(Get(current, "temperature", 0), 10),
         description    |-> triple[1],
         main           |-> triple[2],
         humidity       |-> RoundHalfEven(current_humidity, 10),
         pressure       |-> RoundHalfEven(current_pressure, 10),
         wind_speed     |-> RoundHalfEven(Get(current, "windspeed", 0) * 10, 36),
         wind_direction |-> Get(current, "winddirection", 0),
         icon           |-> triple[3],
         visibility     |-> RoundHalfEven(current_visibility, 100)]

Returned(v) == [kind |-> "return", value |-> v]
Raised(m) == [kind |-> "raise", msg |-> m]

_format_weather_data(raw_data, loc) ==
    IF FormatRaises(raw_data)
    THEN Raised(<<"Error", "processing", "weather", "data">>)
    ELSE Returned(FormatReport(raw_data, loc))

-----------------------------------------------------------------------------
(* WeatherService.get_weather *)

TimeoutMessage == <<"Request", "timeout.", "Please", "try", "again.">>

\* The mutant swallows a timeout and answers "no match".
HandleRequestExceptionSwallow(kind) ==
    IF kind = "Timeout" THEN Returned(None)
    ELSE IF kind = "ConnectionError"
    THEN Raised(<<"Connection", "error.", "Please", "check", "your",
                  "internet", "connection.">>)
    ELSE Raised(<<"Network", "error", "occurred.", "Please", "try", "again.">>)

\* The except clauses for the exceptions raised by requests.get
HandleRequestException(kind) ==
    IF kind = "Timeout" THEN Raised(TimeoutMessage)
    ELSE IF kind = "ConnectionError"
    THEN Raised(<<"Connection", "error.", "Please", "check", "your",
                  "internet", "connection.">>)
    ELSE Raised(<<"Network", "error", "occurred.", "Please", "try", "again.">>)

Proceed(res, loc) == [done |-> FALSE, results |-> res, location |-> loc]
Done(r, res, loc) == [done |-> TRUE, ret |-> r, results |-> res, location |-> loc]

\* The mutant treats an empty result list as an error.
GeocodingStepRaiseNotFound(resp) ==
    IF resp.kind # "response"
    THEN Done(HandleRequestException(resp.kind), <<>>, None)
    ELSE IF resp.status_code # 200
    THEN Done(Raised(<<"Failed", "to", "get", "location", "coordinates">>),
              <<>>, None)
    ELSE IF Get(resp.json, "results", <<>>) = <<>>
    THEN Done(Raised(<<"City", "not", "found">>), <<>>, None)
    ELSE LET res == resp.json["results"]
             loc == _select_best_location(res)
         IN  IF ~Truthy(loc) THEN Done(Returned(None), res, loc)
             ELSE IF "latitude" \notin DOMAIN loc
             THEN Done(Raised(<<"'latitude'">>), res, loc)
             ELSE IF "longitude" \notin DOMAIN loc
             THEN Done(Raised(<<"'longitude'">>), res, loc)
             ELSE Proceed(res, loc)

\* get_weather from the geocoder's answer up to the weather request
GeocodingStep(resp) ==
    IF resp.kind # "response"
    THEN Done(HandleRequestException(resp.kind), <<>>, None)
    ELSE IF resp.status_code # 200
    THEN Done(Raised(<<"Failed", "to", "get", "location", "coordinates">>),
              <<>>, None)
    ELSE IF Get(resp.json, "results", <<>>) = <<>>
    THEN Done(Returned(None), <<>>, None)
    ELSE LET res == resp.json["results"]
             loc == _select_best_location(res)
         IN  IF ~Truthy(loc) THEN Done(Returned(None), res, loc)
             ELSE IF "latitude" \notin DOMAIN loc
             THEN Done(Raised(<<"'latitude'">>), res, loc)
             ELSE IF "longitude" \notin DOMAIN loc
             THEN Done(Raised(<<"'longitude'">>), res, loc)
             ELSE Proceed(res, loc)

\* The mutant formats the payload whatever the status of the answer.
WeatherStepAnyStatus(resp, loc) ==
    IF resp.kind # "response" THEN HandleRequestException(resp.kind)
    ELSE _format_weather_data(resp.json, loc)

\* get_weather from the weather provider's answer to its return
WeatherStep(resp, loc) ==
    IF resp.kind # "response" THEN HandleRequestException(resp.kind)
    ELSE IF resp.status_code = 200 THEN _format_weather_data(resp.json, loc)
    ELSE Raised(<<"Weather", "API", "returned", "status", "code",
                  ToString(resp.status_code)>>)

-----------------------------------------------------------------------------
(* app.py: index *)

RECURSIVE LStrip(_)
LStrip(s) ==
    IF s = <<>> THEN s
    ELSE IF Head(s) = " " THEN LStrip(Tail(s)) ELSE s

RECURSIVE RStrip(_)
RStrip(s) ==
    IF s = <<>> THEN s
    ELSE IF s[Len(s)] = " " THEN RStrip(SubSeq(s, 1, Len(s) - 1)) ELSE s

\* str.strip()
Strip(s) == RStrip(LStrip(s))

\* needle in msg, for strings given as sequences of words
Contains(msg, needle) ==
    \E i \in 1..(Len(msg) - Len(needle) + 1) :
        SubSeq(msg, i, i + Len(needle) - 1) = needle

Flash(text, arg) == [text |-> text, arg |-> arg]

EnterCityFlash == Flash("Please enter a city name.", <<>>)
NotFoundFlash(c) ==
    Flash("Could not find weather data for {city}. Please check the city name and try again.", c)
ApiKeyFlash ==
    Flash("API key issue: Please check that your OpenWeatherMap API key is correct and active. New API keys can take up to 2 hours to activate.", <<>>)
GenericFlash ==
    Flash("Sorry, there was an error fetching the weather data. Please try again later.", <<>>)

\* The mutant shows a timeout as "not found".
IndexSurfaceTimeoutNotFound(r, c) ==
    IF r.kind = "raise"
    THEN [weather_data |-> None,
          flashed |-> IF r.msg = TimeoutMessage THEN <<NotFoundFlash(c)>>
                      ELSE <<GenericFlash>>]
    ELSE [weather_data |-> r.value,
          flashed |-> IF Truthy(r.value) THEN <<>> ELSE <<NotFoundFlash(c)>>]

\* index() after get_weather has returned r or raised r
IndexSurface(r, c) ==
    IF r.kind = "raise"
    THEN [weather_data |-> None,
          flashed |-> IF Contains(r.msg, <<"Invalid", "API", "key">>)
                      THEN <<ApiKeyFlash>> ELSE <<GenericFlash>>]
    ELSE [weather_data |-> r.value,
          flashed |-> IF Truthy(r.value) THEN <<>> ELSE <<NotFoundFlash(c)>>]

-----------------------------------------------------------------------------
(* Inputs: the submitted form and the answers of the two providers *)

CityChars == {" ", "a"}
Forms == SeqUpTo(CityChars, MaxCityLen)

RequestExceptions == {"Timeout", "ConnectionError", "RequestException"}
ErrorStatuses == {500}

Failure(kind) == [kind |-> kind]
Response(status, json) ==
    [kind |-> "response", status_code |-> status, json |-> json]

SmallSpringfield ==
    [name |-> "Springfield", country_code |-> "US", admin1 |-> "",
     latitude |-> 373, longitude |-> -932, population |-> 2000,
     feature_class |-> "P"]
BigSpringfield ==
    [name |-> "Springfield", country_code |-> "US", admin1 |-> "Illinois",
     latitude |-> 398, longitude |-> -896, population |-> 150000,
     feature_class |-> "P"]
NoLatitude == [name |-> "Springfield", longitude |-> -896]

GeocodedCandidates == {SmallSpringfield, BigSpringfield, NoLatitude, EmptyDict}

GeocodingAnswers ==
    { Failure(k) : k \in RequestExceptions }
      \cup { Response(st, EmptyDict) : st \in {200} \cup ErrorStatuses }
      \cup { Response(200, "results" :> r) :
                r \in SeqUpTo(GeocodedCandidates, MaxResults) }

Currents ==
    { Opt("temperature", t) @@ Opt("windspeed", w) @@ Opt("weathercode", k)
        @@ Opt("winddirection", d) :
        t \in {<<>>, <<215>>, <<-25>>}, w \in {<<>>, <<360>>},
        k \in {<<>>, <<95>>, <<4>>}, d \in {<<>>, <<180>>} }

Hourlies ==
    { Opt("relative_humidity_2m", h) @@ Opt("surface_pressure", p)
        @@ Opt("visibility", v) :
        h \in {<<>>, << <<>> >>, << <<655>> >>, << <<655, 700>> >>},
        p \in {<<>>, << <<>> >>, << <<10132>> >>},
        v \in {<<>>, << <<>> >>, << <<10000>> >>} }

WeatherPayloads ==
    {None} \cup
    { Opt("current_weather", c) @@ Opt("hourly", h) :
        c \in {<<>>} \cup { <<x>> : x \in Currents \cup {None} },
        h \in {<<>>} \cup { <<x>> : x \in Hourlies \cup {None} } }

WeatherAnswers ==
    { Failure(k) : k \in RequestExceptions }
      \cup { Response(st, EmptyDict) : st \in ErrorStatuses }
      \cup { Response(200, j) : j \in WeatherPayloads }

SelectCandidates ==
    { Opt("population", p) @@ Opt("feature_class", f) @@ Opt("admin1", a) :
        p \in {<<>>, <<0>>, <<5000>>, <<10000>>},
        f \in {<<>>, <<"P">>},
        a \in {<<>>, <<"">>, <<"Illinois">>} }

-----------------------------------------------------------------------------
(* A request to the index route *)

Pending == [kind |-> "pending"]

Idle ==
    /\ calls = <<>>
    /\ geocoding_response = Pending
    /\ results = <<>>
    /\ location = None
    /\ weather_response = Pending
    /\ ret = Pending
    /\ flashed = <<>>
    /\ weather_data = None
    /\ weather_code = 0
    /\ description = <<>>

Init ==
    /\ pc = "index"
    /\ method \in {"GET", "POST"}
    /\ form_city \in Forms
    /\ city = None
    /\ Idle

IndexGet ==
    /\ pc = "index"
    /\ method = "GET"
    /\ pc' = "rendered"
    /\ UNCHANGED <<method, form_city, city, calls, geocoding_response,
                   results, location, weather_response, ret, flashed,
                   weather_data, weather_code, description>>

\* index() up to the first outbound request of get_weather
IndexPost ==
    /\ pc = "index"
    /\ method = "POST"
    /\ city' = Strip(form_city)
    /\ IF city' = <<>>
       THEN /\ flashed' = <<EnterCityFlash>>
            /\ pc' = "rendered"
            /\ calls' = calls
       ELSE /\ flashed' = flashed
            /\ pc' = "geocoding"
            /\ calls' = Append(calls, "geocoding")
    /\ UNCHANGED <<method, form_city, geocoding_response, results, location,
                   weather_response, ret, weather_data, weather_code,
                   description>>

\* The mutant issues the geocoder request again after a timeout.
GeocodingRespondsRetry ==
    /\ pc = "geocoding"
    /\ \E resp \in GeocodingAnswers :
         LET step == GeocodingStep(resp)
         IN  /\ geocoding_response' = resp
             /\ results' = step.results
             /\ location' = step.location
             /\ IF resp.kind = "Timeout" /\ Len(calls) < 2
                THEN /\ pc' = "geocoding"
                     /\ calls' = Append(calls, "geocoding")
                     /\ UNCHANGED <<ret, flashed, weather_data>>
                ELSE IF step.done
                THEN /\ pc' = "rendered"
                     /\ calls' = calls
                     /\ ret' = step.ret
                     /\ flashed' = IndexSurface(step.ret, city).flashed
                     /\ weather_data' = IndexSurface(step.ret, city).weather_data
                ELSE /\ pc' = "weather"
                     /\ calls' = Append(calls, "weather")
                     /\ UNCHANGED <<ret, flashed, weather_data>>
    /\ UNCHANGED <<method, form_city, city, weather_response, weather_code,
                   description>>

\* The geocoder request ends; get_weather runs up to the weather request or
\* to its end, and in the latter case index() surfaces the outcome.
GeocodingResponds ==
    /\ pc = "geocoding"
    /\ \E resp \in GeocodingAnswers :
         LET step == GeocodingStep(resp)
         IN  /\ geocoding_response' = resp
             /\ results' = step.results
             /\ location' = step.location
             /\ IF step.done
                THEN /\ pc' = "rendered"
                     /\ calls' = calls
                     /\ ret' = step.ret
                     /\ flashed' = IndexSurface(step.ret, city).flashed
                     /\ weather_data' = IndexSurface(step.ret, city).weather_data
                ELSE /\ pc' = "weather"
                     /\ calls' = Append(calls, "weather")
                     /\ UNCHANGED <<ret, flashed, weather_data>>
    /\ UNCHANGED <<method, form_city, city, weather_response, weather_code,
                   description>>

\* The weather request ends; get_weather returns or raises and index()
\* surfaces the outcome.
WeatherResponds ==
    /\ pc = "weather"
    /\ \E resp \in WeatherAnswers :
         LET r == WeatherStep(resp, location)
         IN  /\ weather_response' = resp
             /\ ret' = r
             /\ flashed' = IndexSurface(r, city).flashed
             /\ weather_data' = IndexSurface(r, city).weather_data
    /\ pc' = "rendered"
    /\ UNCHANGED <<method, form_city, city, calls, geocoding_response,
                   results, location, weather_code, description>>

Next == IndexGet \/ IndexPost \/ GeocodingResponds \/ WeatherResponds

Spec == Init /\ [][Next]_vars

-----------------------------------------------------------------------------
(* The location selector applied to any candidate sequence *)

InitSelect ==
    /\ pc = "select"
    /\ method = "" /\ form_city = <<>> /\ city = None
    /\ calls = <<>> /\ geocoding_response = Pending
    /\ weather_response = Pending /\ ret = Pending
    /\ flashed = <<>> /\ weather_data = None
    /\ weather_code = 0 /\ description = <<>>
    /\ results \in SeqUpTo(SelectCandidates, MaxSelectLen)
    /\ location = None

SelectBestLocation ==
    /\ pc = "select"
    /\ location' = _select_best_location(results)
    /\ pc' = "selected"
    /\ UNCHANGED <<method, form_city, city, calls, geocoding_response,
                   results, weather_response, ret, flashed, weather_data,
                   weather_code, description>>

NextSelect == SelectBestLocation

SpecSelect == InitSelect /\ [][NextSelect]_vars

-----------------------------------------------------------------------------
(* The weather code mapper applied to any integer code *)

InitMapper ==
    /\ pc = "describe"
    /\ method = "" /\ form_city = <<>> /\ city = None
    /\ calls = <<>> /\ geocoding_response = Pending
    /\ results = <<>> /\ location = None
    /\ weather_response = Pending /\ ret = Pending
    /\ flashed = <<>> /\ weather_data = None
    /\ weather_code \in (0 - MaxBelowZero)..MaxCode
    /\ description = <<>>

GetWeatherDescription ==
    /\ pc = "describe"
    /\ description' = _get_weather_description(weather_code)
    /\ pc' = "described"
    /\ UNCHANGED <<method, form_city, city, calls, geocoding_response,
                   results, location, weather_response, ret, flashed,
                   weather_data, weather_code>>

NextMapper == GetWeatherDescription

SpecMapper == InitMapper /\ [][NextMapper]_vars

-----------------------------------------------------------------------------
(* Properties *)

\* The score as the specification words it.
ClaimScore(c) ==
    (IF "population" \in DOMAIN c THEN c["population"] ELSE 0)
      + (IF "feature_class" \in DOMAIN c /\ c["feature_class"] = "P"
         THEN 10000 ELSE 0)
      + (IF "admin1" \in DOMAIN c /\ c["admin1"] # "" THEN 5000 ELSE 0)

IsMaximal(i) ==
    \A j \in 1..Len(results) : ClaimScore(results[j]) <= ClaimScore(results[i])

\* C1: _select_best_location returns None for an empty sequence and, for a
\* non-empty one, an element of the sequence whose score is at least the
\* score of every element.
C1_SelectMaximal ==
    pc = "selected" =>
        IF results = <<>> THEN location = None
        ELSE \E i \in 1..Len(results) : results[i] = location /\ IsMaximal(i)

C1_Witness ==
    /\ pc = "selected"
    /\ Len(results) = 3
    /\ location = results[3]
    /\ ClaimScore(results[3]) > ClaimScore(results[1])
    /\ ClaimScore(results[3]) > ClaimScore(results[2])

\* C2: when several candidates share the maximum score, the one returned is
\* the earliest of them in the order the geocoder gave.
C2_TieEarliest ==
    pc = "selected" /\ results # <<>> =>
        \E i \in 1..Len(results) :
            /\ IsMaximal(i)
            /\ \A j \in 1..(i - 1) : ClaimScore(results[j]) < ClaimScore(results[i])
            /\ location = results[i]

C2_Witness ==
    /\ pc = "selected"
    /\ Len(results) = 3
    /\ IsMaximal(2) /\ IsMaximal(3)
    /\ ~IsMaximal(1)
    /\ results[2] # results[3]
    /\ location = results[2]

GeocoderFound ==
    /\ geocoding_response.kind = "response"
    /\ geocoding_response.status_code = 200
    /\ Get(geocoding_response.json, "results", <<>>) # <<>>

GeocoderEmpty ==
    /\ geocoding_response.kind = "response"
    /\ geocoding_response.status_code = 200
    /\ Get(geocoding_response.json, "results", <<>>) = <<>>

WeatherOk ==
    /\ weather_response.kind = "response"
    /\ weather_response.status_code = 200

IsReport(r) == r.kind = "return" /\ r.value # None

\* C3: get_weather returns a report only if the geocoder answered 200 with
\* candidates, a location was selected, the weather provider answered 200
\* and the formatter completed; otherwise it returns None or raises.  A
\* returned report carries every field.
C3_ReportOnlyOnSuccess ==
    /\ IsReport(ret) =>
          /\ GeocoderFound
          /\ Truthy(location)
          /\ WeatherOk
          /\ ~FormatRaises(weather_response.json)
          /\ DOMAIN ret.value = ReportKeys
    /\ pc = "rendered" /\ calls # <<>> => ret.kind \in {"return", "raise"}

C3_Witness ==
    /\ pc = "rendered"
    /\ IsReport(ret)
    /\ ret.value["city"] = "Springfield"
    /\ ret.value["temperature"] = 22

\* C4: a 200 answer of the geocoder without candidates ends get_weather with
\* None, not with an exception, and the weather provider is not called.
C4_NoMatch ==
    pc = "rendered" /\ GeocoderEmpty =>
        /\ ret = Returned(None)
        /\ calls = <<"geocoding">>
        /\ weather_response = Pending

C4_Witness ==
    /\ pc = "rendered"
    /\ GeocoderEmpty
    /\ "results" \in DOMAIN geocoding_response.json
    /\ ret = Returned(None)

\* C5: at most one geocoder request and then at most one weather request are
\* issued, the weather request only after a 200 answer of the geocoder and a
\* selected location; nothing is requested twice.
C5_AtMostTwoCalls ==
    /\ calls \in {<<>>, <<"geocoding">>, <<"geocoding", "weather">>}
    /\ pc = "geocoding" => calls = <<"geocoding">>
    /\ Len(calls) = 2 => GeocoderFound /\ Truthy(location)
    /\ weather_response # Pending => Len(calls) = 2

C5_Witness ==
    /\ pc = "rendered"
    /\ calls = <<"geocoding", "weather">>
    /\ weather_response.kind = "ConnectionError"

TableCodes ==
    {0, 1, 2, 3, 45, 48, 51, 53, 55, 56, 57, 61, 63, 65, 66, 67, 71, 73, 75,
     77, 80, 81, 82, 85, 86, 95, 96, 99}

\* C7: _get_weather_description returns a triple for every integer code: the
\* table entry for a code of the table, (Unknown, Unknown, 01d) otherwise.
C7_MapperTotal ==
    pc = "described" =>
        /\ Len(description) = 3
        /\ weather_code = 95 => description = <<"Thunderstorm", "Thunderstorm", "11d">>
        /\ weather_code = 0 => description = <<"Clear sky", "Clear", "01d">>
        /\ weather_code \in TableCodes => description = weather_map[weather_code]
        /\ weather_code \notin TableCodes => description = <<"Unknown", "Unknown", "01d">>
        /\ DOMAIN weather_map = TableCodes

C7_Witness ==
    /\ pc = "described"
    /\ weather_code = -1
    /\ description = <<"Unknown", "Unknown", "01d">>

NoReading ==
    /\ WeatherOk
    /\ \/ weather_response.json = None
       \/ "current_weather" \notin DOMAIN weather_response.json

\* C8: a 200 answer of the weather provider that carries no current
\* conditions makes the formatter signal an error, so get_weather raises.
C8_AbsentReadingRaises ==
    pc = "rendered" /\ NoReading => ret.kind = "raise"

ReadingPresent ==
    /\ WeatherOk
    /\ weather_response.json # None
    /\ "current_weather" \in DOMAIN weather_response.json
    /\ weather_response.json["current_weather"] # None

CurrentMissing(key) == key \notin DOMAIN weather_response.json["current_weather"]

HourlyMissing(key) ==
    LET hourly == Get(weather_response.json, "hourly", EmptyDict)
    IN  \/ ~Truthy(hourly)
        \/ Get(hourly, key, <<>>) = <<>>

MissingFields ==
    { f \in {"temperature", "wind_speed"} :
        CurrentMissing(IF f = "wind_speed" THEN "windspeed" ELSE f) }
      \cup (IF HourlyMissing("relative_humidity_2m") THEN {"humidity"} ELSE {})
      \cup (IF HourlyMissing("surface_pressure") THEN {"pressure"} ELSE {})
      \cup (IF HourlyMissing("visibility") THEN {"visibility"} ELSE {})

\* C9: when the reading is present and a single numeric field is missing
\* from it, the formatter returns a report in which that field is 0.
C9_MissingFieldDefaultsToZero ==
    pc = "rendered" /\ ReadingPresent /\ Cardinality(MissingFields) = 1 =>
        /\ IsReport(ret)
        /\ \A f \in MissingFields : ret.value[f] = 0

Blank(s) == \A i \in 1..Len(s) : s[i] = " "

\* C10: a POST to the index route surfaces exactly one outcome: the
\* enter-a-city message for a blank city, without calling the service; the
\* report without message; the not-found message for "no match"; the one
\* generic message for every failure.  Only a report is ever rendered.
C10_PostOutcomes ==
    pc = "rendered" /\ method = "POST" =>
        IF Blank(form_city)
        THEN /\ flashed = <<EnterCityFlash>>
             /\ ret = Pending /\ calls = <<>>
             /\ weather_data = None
        ELSE IF ret.kind = "raise"
        THEN flashed = <<GenericFlash>> /\ weather_data = None
        ELSE /\ ret.kind = "return"
             /\ IF ret.value = None
                THEN flashed = <<NotFoundFlash(city)>> /\ weather_data = None
                ELSE flashed = <<>> /\ weather_data = ret.value

C10_Witness ==
    /\ pc = "rendered"
    /\ method = "POST"
    /\ ret = Raised(<<"Request", "timeout.", "Please", "try", "again.">>)
    /\ flashed = <<GenericFlash>>

====
